---- MODULE Spec2Model ----
(***************************************************************************)
(* Reminder scheduling and delivery engine of High-Five                    *)
(* (src/src/services/reminder_service.py, redis_service.py, scheduler.py,  *)
(* models/reminder_models.py).                                             *)
(*                                                                         *)
(* Time is counted in seconds.  A reminder record keeps the fields of      *)
(* ReminderData the engine reads or writes; a queue member is the JSON     *)
(* text written by _schedule_reminder, kept as the fields that make two    *)
(* JSON texts differ.                                                      *)
(***************************************************************************)
EXTENDS Integers, Sequences, FiniteSets, TLC

VARIABLES
    now,          \* wall clock, datetime.now(), in seconds
    db,           \* the reminder store: id -> record, or NoReminder
    scheduledQ,   \* Redis sorted set "reminders:scheduled": {[member, score]}
    workerDue,    \* _process_due_reminders: due entries still to handle
    last,         \* the last call and what it returned to its caller
    immediateQ,   \* Redis list "reminders:immediate", head = left end
    retryQ,       \* Redis sorted set "reminders:retry": {[member, score]}
    lockKey,      \* Redis key "locks:scheduler": NoLock or its value and expiry
    pc,           \* where each scheduler thread stands
    batch,        \* all_reminders of each thread's _process_due_reminders
    due,          \* results of each thread's zrangebyscore, not removed yet
    redisUp,      \* whether the Redis commands of RedisService succeed
    stuck,        \* workers of _executor held by dispatches that never return
    rateKey,      \* gateway: Redis sorted set "rate_limit:<client_id>" of one client
    admitted      \* gateway: requests of that client that is_allowed has let through

vars == <<now, db, scheduledQ, workerDue, last, immediateQ, retryQ, lockKey, pc,
          batch, due, redisUp, stuck, rateKey, admitted>>
schedVars == <<immediateQ, retryQ, lockKey, pc, batch, due, redisUp, stuck,
               rateKey, admitted>>

-----------------------------------------------------------------------------
(* Bounds of the model *)

MaxTicks == 2          \* the clock runs over 0 .. MaxTicks * MinRetryInterval
MaxRetriesIn == 1      \* max_retries given by callers ranges over 0 .. MaxRetriesIn
MaxQueuedRetries == 4  \* max_retries of the reminders handed to the queue service
MaxClock == 3000       \* the scheduler's waits stop at this time
MaxLadder == 3         \* configured retry_delays lists have 1 .. MaxLadder delays
MaxRetryCount == 6     \* _calculate_retry_delay is called with 1 .. MaxRetryCount
MaxSecond == 2         \* the gateway's clock, int(time.time()), runs over 0 .. MaxSecond

(* Program constants *)

MinRetryInterval == 60        \* Field(ge=60)
DefaultRetryInterval == 300   \* ReminderData.retry_interval
DefaultMaxRetries == 3        \* ReminderData.max_retries
ImmediateDelay == 5           \* send_immediate: now + 5 seconds
check_interval == 60          \* SchedulerConfig.check_interval
batch_size == 50              \* SchedulerConfig.batch_size
worker_threads == 4           \* SchedulerConfig.worker_threads
retry_delays == <<300, 900, 1800>>   \* SchedulerConfig.retry_delays
RetryDelayCap == 3600         \* _calculate_retry_delay: min(..., 3600)
RATE_LIMIT_REQUESTS == 100    \* api-gateway Settings.RATE_LIMIT_REQUESTS
RATE_LIMIT_WINDOW == 60       \* api-gateway Settings.RATE_LIMIT_WINDOW, seconds

Ids == {1}

(* the reminders handed to the worker pool: one more than it has workers *)
PoolIds == 1 .. worker_threads + 1
StoreIds == Ids \cup PoolIds

-----------------------------------------------------------------------------
(* ReminderStatus, DeliveryMethod *)

PENDING == "pending"
SCHEDULED == "scheduled"
SENT == "sent"
DELIVERED == "delivered"
FAILED == "failed"
CANCELLED == "cancelled"
RETRY == "retry"

ReminderStatus == {PENDING, SCHEDULED, SENT, DELIVERED, FAILED, CANCELLED, RETRY}

DeliveryMethod == {"sms", "voice", "both"}

NoReminder == [absent |-> TRUE]
NoSid == [kind |-> "none", of |-> 0]
NoMessage == "null"

(* ReminderData as built by create_reminder: status keeps its default.     *)
ReminderData(id, method, st, msg, maxr, interval) ==
    [id |-> id,
     delivery_method |-> method,
     status |-> PENDING,
     scheduled_time |-> st,
     custom_message |-> msg,
     retry_count |-> 0,
     max_retries |-> maxr,
     retry_interval |-> interval,
     twilio_sid |-> NoSid,
     error_message |-> "none"]

-----------------------------------------------------------------------------
(* The sorted set "reminders:scheduled" *)

(* json.dumps of _schedule_reminder: id and the payload fields.  The       *)
(* status, retry_count, max_retries and scheduled_time are not written.    *)
MemberOf(r) == [id |-> r.id, delivery_method |-> r.delivery_method,
                custom_message |-> r.custom_message]

(* zadd: a member already present only gets its score replaced *)
ZAdd(q, m, s) == {e \in q : e.member # m} \cup {[member |-> m, score |-> s]}

ZRem(q, m) == {e \in q : e.member # m}

(* Redis orders a sorted set by score, then by the member's bytes:         *)
(* ..."custom_message": "text"... sorts before ..."custom_message": null   *)
MemberRank(m) == IF m.custom_message = NoMessage THEN 1 ELSE 0

Before(e, f) ==
    \/ e.score < f.score
    \/ e.score = f.score /\ e.member.id < f.member.id
    \/ e.score = f.score /\ e.member.id = f.member.id
       /\ MemberRank(e.member) < MemberRank(f.member)

RECURSIVE ZRange(_)
ZRange(q) ==
    IF q = {} THEN <<>>
    ELSE LET first == CHOOSE e \in q : \A f \in q \ {e} : Before(e, f)
         IN <<first>> \o ZRange(q \ {first})

ZRangeByScore(q, max) == ZRange({e \in q : e.score <= max})

_schedule_reminder(q, r) == ZAdd(q, MemberOf(r), r.scheduled_time)

(* removes the first member of zrange whose id matches, and stops *)
_remove_from_queue(q, id) ==
    LET hits == {e \in q : e.member.id = id}
    IN IF hits = {} THEN q
       ELSE LET first == CHOOSE e \in hits : \A f \in hits \ {e} : Before(e, f)
            IN q \ {first}

_reschedule_reminder(q, r) == _schedule_reminder(_remove_from_queue(q, r.id), r)

-----------------------------------------------------------------------------
(* What a call hands back to its caller *)

Ret(op, id, result) == [op |-> op, id |-> id, result |-> result]

(* ReminderCreate.validate_scheduled_time / ReminderUpdate.validate_scheduled_time: *)
(* v <= datetime.now() raises ValueError                                            *)
(* a validator that refuses only a scheduled_time before now *)
validate_not_before_now(v, t) == ~(v < t)

validate_scheduled_time(v, t) == ~(v <= t)

-----------------------------------------------------------------------------
(* ReminderService *)

(* retry_count += 1; status = RETRY; scheduled_time = now + retry_interval; *)
(* _update_reminder_in_db; _schedule_reminder                               *)
_schedule_retry(d, q, t, r) ==
    LET r2 == [r EXCEPT !.retry_count = r.retry_count + 1,
                        !.status = RETRY,
                        !.scheduled_time = t + r.retry_interval]
    IN [db |-> [d EXCEPT ![r.id] = r2], q |-> _schedule_reminder(q, r2), r |-> r2]

create_reminder(d, q, id, method, st, msg, maxr, interval) ==
    LET r == ReminderData(id, method, st, msg, maxr, interval)
    IN [db |-> [d EXCEPT ![id] = r], q |-> _schedule_reminder(q, r), r |-> r]

(* patch fields: -1 / "keep" stand for None *)
update_reminder(d, q, t, id, patch) ==
    LET r == d[id] IN
    IF r = NoReminder THEN [db |-> d, q |-> q, ret |-> "not_found"]
    ELSE IF r.status \in {SENT, DELIVERED, CANCELLED}
    THEN [db |-> d, q |-> q, ret |-> "value_error"]
    ELSE LET r1 == IF patch.scheduled_time # -1
                   THEN [r EXCEPT !.scheduled_time = patch.scheduled_time] ELSE r
             r2 == IF patch.custom_message # "keep"
                   THEN [r1 EXCEPT !.custom_message = patch.custom_message] ELSE r1
             r3 == IF patch.max_retries # -1
                   THEN [r2 EXCEPT !.max_retries = patch.max_retries] ELSE r2
         IN [db |-> [d EXCEPT ![id] = r3],
             q |-> IF patch.scheduled_time # -1 THEN _reschedule_reminder(q, r3) ELSE q,
             ret |-> "ok"]

cancel_reminder(d, q, id) ==
    LET r == d[id] IN
    IF r = NoReminder THEN [db |-> d, q |-> q, ret |-> "not_found"]
    ELSE IF r.status \in {SENT, DELIVERED}
    THEN [db |-> d, q |-> q, ret |-> "value_error"]
    ELSE [db |-> [d EXCEPT ![id] = [r EXCEPT !.status = CANCELLED]],
          q |-> _remove_from_queue(q, id),
          ret |-> "ok"]

retry_failed_reminder(d, q, t, id, force) ==
    LET r == d[id] IN
    IF r = NoReminder THEN [db |-> d, q |-> q, ret |-> "not_found"]
    ELSE IF r.status # FAILED /\ ~force
    THEN [db |-> d, q |-> q, ret |-> "value_error"]
    ELSE IF r.retry_count >= r.max_retries /\ ~force
    THEN [db |-> d, q |-> q, ret |-> "value_error"]
    ELSE LET r2 == [r EXCEPT !.status = RETRY,
                             !.scheduled_time = t + r.retry_interval]
         IN [db |-> [d EXCEPT ![id] = r2], q |-> _schedule_reminder(q, r2), ret |-> "ok"]

(* status.lower() *)
Lower(s) ==
    CASE s = "DELIVERED" -> "delivered"
      [] s = "Failed" -> "failed"
      [] s = "Queued" -> "queued"
      [] OTHER -> s

ProviderStatuses == {"delivered", "sent", "failed", "undelivered", "queued",
                     "DELIVERED", "Failed"}

(* a mapping whose default is FAILED *)
status_mapping_default_failed(s, current) ==
    CASE s = "delivered" -> DELIVERED
      [] s = "sent" -> SENT
      [] OTHER -> FAILED

(* status_mapping.get(status.lower(), reminder.status) *)
status_mapping(s, current) ==
    CASE s = "delivered" -> DELIVERED
      [] s = "sent" -> SENT
      [] s = "failed" -> FAILED
      [] s = "undelivered" -> FAILED
      [] OTHER -> current

(* _get_reminder_by_twilio_sid *)
_get_reminder_by_twilio_sid(d, sid) ==
    IF \E i \in Ids : d[i] # NoReminder /\ d[i].twilio_sid = sid
    THEN d[CHOOSE i \in Ids : d[i] # NoReminder /\ d[i].twilio_sid = sid]
    ELSE NoReminder

(* error_message or f"Erreur Twilio: {error_code}" *)
CallbackError(error_message, error_code) ==
    IF error_message # "none" THEN error_message
    ELSE IF error_code # "none" THEN "Erreur Twilio: 30003" ELSE "Erreur Twilio: None"

(* updated_at, delivered_at: the time the call writes to the field, or     *)
(* Unwritten                                                               *)
Unwritten == -1

update_delivery_status(d, q, t, sid, status, error_code, error_message) ==
    LET r == _get_reminder_by_twilio_sid(d, sid) IN
    IF r = NoReminder
    THEN [db |-> d, q |-> q, ret |-> "false",
          updated_at |-> Unwritten, delivered_at |-> Unwritten]
    ELSE LET new_status == status_mapping(Lower(status), r.status) IN
         IF new_status = r.status
         THEN [db |-> d, q |-> q, ret |-> "true",
               updated_at |-> Unwritten, delivered_at |-> Unwritten]
         ELSE IF new_status = FAILED
         THEN LET r1 == [r EXCEPT !.status = FAILED,
                                  !.error_message = CallbackError(error_message, error_code)]
              IN IF r1.retry_count < r1.max_retries
                 THEN LET s == _schedule_retry(d, q, t, r1)
                      IN [db |-> [s.db EXCEPT ![r.id] = s.r], q |-> s.q, ret |-> "true",
                          updated_at |-> t, delivered_at |-> Unwritten]
                 ELSE [db |-> [d EXCEPT ![r.id] = r1], q |-> q, ret |-> "true",
                       updated_at |-> t, delivered_at |-> Unwritten]
         ELSE [db |-> [d EXCEPT ![r.id] = [r EXCEPT !.status = new_status]],
               q |-> q, ret |-> "true",
               updated_at |-> t,
               delivered_at |-> IF new_status = DELIVERED THEN t ELSE Unwritten]

-----------------------------------------------------------------------------
(* Dispatch.  The telephony gateway answers "ok", or fails with a transient *)
(* or a permanent error; send_sms / make_voice_call turn every failure into *)
(* success = False with the error text.                                     *)

GatewayOutcomes == {"ok", "transient", "permanent"}

ErrorText(channel, outcome) ==
    IF channel = "sms"
    THEN (IF outcome = "transient" THEN "sms: transient" ELSE "sms: permanent")
    ELSE (IF outcome = "transient" THEN "voice: transient" ELSE "voice: permanent")

_send_sms_reminder(r, outcome) ==
    IF outcome = "ok"
    THEN [r |-> [r EXCEPT !.twilio_sid = [kind |-> "SM", of |-> r.id]], ok |-> TRUE]
    ELSE [r |-> [r EXCEPT !.error_message = ErrorText("sms", outcome)], ok |-> FALSE]

_send_voice_reminder(r, outcome) ==
    IF outcome = "ok"
    THEN [r |-> [r EXCEPT !.twilio_sid = [kind |-> "CA", of |-> r.id]], ok |-> TRUE]
    ELSE [r |-> [r EXCEPT !.error_message = ErrorText("voice", outcome)], ok |-> FALSE]

(* the "Envoyer le message" part of _process_reminder *)
SendByMethod(r, sms, voice) ==
    IF r.delivery_method = "sms" THEN _send_sms_reminder(r, sms)
    ELSE IF r.delivery_method = "voice" THEN _send_voice_reminder(r, voice)
    ELSE LET a == _send_sms_reminder(r, sms)
             b == _send_voice_reminder(a.r, voice)
         IN [r |-> b.r, ok |-> a.ok /\ b.ok]

(* the "Mettre à jour le statut" part of _process_reminder *)
RecordOutcome(d, q, t, r, ok) ==
    IF ok
    THEN [db |-> [d EXCEPT ![r.id] = [r EXCEPT !.status = SENT]], q |-> q]
    ELSE LET r1 == [r EXCEPT !.status = FAILED]
         IN IF r1.retry_count < r1.max_retries
            THEN LET s == _schedule_retry(d, q, t, r1)
                 IN [db |-> [s.db EXCEPT ![r.id] = s.r], q |-> s.q]
            ELSE [db |-> [d EXCEPT ![r.id] = r1], q |-> q]

_process_reminder(d, q, t, r, patientFound, sms, voice) ==
    IF ~patientFound
    THEN [db |-> [d EXCEPT ![r.id] = [r EXCEPT !.status = FAILED,
                                               !.error_message = "exception"]],
          q |-> q]
    ELSE LET r0 == [r EXCEPT !.status = PENDING]
             sent == SendByMethod(r0, sms, voice)
         IN RecordOutcome([d EXCEPT ![r.id] = r0], q, t, sent.r, sent.ok)

(* Which channels a method uses; the other channel's outcome is "unused" *)
SmsOutcomes(method) == IF method = "voice" THEN {"unused"} ELSE {"ok", "transient"}
VoiceOutcomes(method) == IF method = "sms" THEN {"unused"} ELSE GatewayOutcomes

-----------------------------------------------------------------------------
(* RedisService: queues and locks *)

Min(a, b) == IF a < b THEN a ELSE b

RECURSIVE Pow2(_)
Pow2(n) == IF n = 0 THEN 1 ELSE 2 * Pow2(n - 1)

(* Two scheduler instances run _scheduler_loop; "api" is the request       *)
(* thread of the first one, which runs force_process_reminders.            *)
Loops == {"s1", "s2"}
Threads == Loops \cup {"api"}

NoLock == [absent |-> TRUE]

(* set(lock_key, identifier, nx=True, ex=timeout): the key is written when *)
(* it is absent or expired.  identifier is the caller's clock reading;     *)
(* client is the connection that issued the SET, which Redis and the code  *)
(* do not keep.  up = FALSE: the command raises, the except branch        *)
(* returns False.                                                          *)
LockPresent(l, t) == l # NoLock /\ t < l.expires

(* a SET with no ex: the key stays until it is deleted *)
acquire_lock_no_ttl(l, t, client, timeout, up) ==
    IF ~up \/ l # NoLock
    THEN [lock |-> l, ok |-> FALSE]
    ELSE [lock |-> [identifier |-> t, client |-> client,
                    expires |-> t + timeout + MaxClock * MaxClock],
          ok |-> TRUE]

(* a SET without nx: the refused caller still rewrites the key *)
acquire_lock_overwrite(l, t, client, timeout, up) ==
    IF ~up THEN [lock |-> l, ok |-> FALSE]
    ELSE [lock |-> [identifier |-> t, client |-> client, expires |-> t + timeout],
          ok |-> ~LockPresent(l, t)]

acquire_lock(l, t, client, timeout, up) ==
    IF ~up \/ LockPresent(l, t)
    THEN [lock |-> l, ok |-> FALSE]
    ELSE [lock |-> [identifier |-> t, client |-> client, expires |-> t + timeout],
          ok |-> TRUE]

(* delete(lock_key): the identifier is not looked at *)
release_lock(l, t, up) ==
    IF up THEN [lock |-> NoLock, ok |-> LockPresent(l, t)]
    ELSE [lock |-> l, ok |-> FALSE]

(* json.loads, then ReminderData built from the dict: a key the JSON text  *)
(* lacks keeps the dataclass default                                       *)
ParseMember(m) ==
    [id |-> m.id,
     delivery_method |-> m.delivery_method,
     status |-> IF "status" \in DOMAIN m THEN m.status ELSE PENDING,
     scheduled_time |-> IF "scheduled_time" \in DOMAIN m THEN m.scheduled_time ELSE -1,
     custom_message |-> m.custom_message,
     retry_count |-> IF "retry_count" \in DOMAIN m THEN m.retry_count ELSE 0,
     max_retries |-> IF "max_retries" \in DOMAIN m THEN m.max_retries
                     ELSE DefaultMaxRetries,
     retry_interval |-> IF "retry_interval" \in DOMAIN m THEN m.retry_interval
                        ELSE DefaultRetryInterval,
     twilio_sid |-> IF "twilio_sid" \in DOMAIN m THEN m.twilio_sid ELSE NoSid,
     error_message |-> IF "error_message" \in DOMAIN m THEN m.error_message
                       ELSE "none"]

(* json.dumps(asdict(reminder_data), default=str): every field is written; *)
(* the fields the model keeps are numbers, strings and null, which JSON    *)
(* carries as they are                                                     *)
DumpReminder(r) == r

Take(seq, n) == SubSeq(seq, 1, Min(Len(seq), n))

RECURSIVE ParseAll(_)
ParseAll(entries) ==
    IF entries = <<>> THEN <<>>
    ELSE <<ParseMember(Head(entries).member)>> \o ParseAll(Tail(entries))

RECURSIVE Reverse(_)
Reverse(seq) == IF seq = <<>> THEN <<>> ELSE Reverse(Tail(seq)) \o <<Head(seq)>>

(* delay_seconds > 0: zadd to "reminders:scheduled"; else lpush to the     *)
(* immediate list.  up = FALSE: the Redis command raises; the except       *)
(* branch logs and raises again.                                           *)
(* an enqueue whose except branch logs and returns *)
enqueue_scheduled_soft(sq, iq, t, r, delay_seconds, up) ==
    IF ~up THEN [scheduled |-> sq, immediate |-> iq, raised |-> FALSE]
    ELSE IF delay_seconds > 0
    THEN [scheduled |-> ZAdd(sq, DumpReminder(r), t + delay_seconds),
          immediate |-> iq, raised |-> FALSE]
    ELSE [scheduled |-> sq, immediate |-> <<DumpReminder(r)>> \o iq,
          raised |-> FALSE]

enqueue_scheduled_reminder(sq, iq, t, r, delay_seconds, up) ==
    IF ~up THEN [scheduled |-> sq, immediate |-> iq, raised |-> TRUE]
    ELSE IF delay_seconds > 0
    THEN [scheduled |-> ZAdd(sq, DumpReminder(r), t + delay_seconds),
          immediate |-> iq, raised |-> FALSE]
    ELSE [scheduled |-> sq, immediate |-> <<DumpReminder(r)>> \o iq,
          raised |-> FALSE]

enqueue_immediate_reminder(sq, iq, t, r, up) ==
    enqueue_scheduled_reminder(sq, iq, t, r, 0, up)

enqueue_retry_reminder(rq, t, r, retry_delay, up) ==
    IF up THEN [retry |-> ZAdd(rq, DumpReminder(r), t + retry_delay), raised |-> FALSE]
    ELSE [retry |-> rq, raised |-> TRUE]

(* zrangebyscore(key, 0, now, start=0, num=limit), then zrem of each       *)
(* member that parses                                                      *)
DueEntries(q, t, limit) == Take(ZRangeByScore(q, t), limit)

(* zrem(key, member) of every result: the entry that holds the member now  *)
(* is removed, whoever else read or removed it meanwhile                   *)
ZRemAll(q, results) ==
    {e \in q : \A k \in 1 .. Len(results) : e.member # results[k].member}

(* one caller alone: the read, then the removals.  up = FALSE:             *)
(* zrangebyscore raises and the outer except returns []                    *)
get_due_reminders(q, t, limit, up) ==
    LET results == DueEntries(q, t, limit)
    IN IF up
       THEN [reminders |-> ParseAll(results), q |-> ZRemAll(q, results),
             raised |-> FALSE]
       ELSE [reminders |-> <<>>, q |-> q, raised |-> FALSE]

get_due_scheduled_reminders(sq, t, limit, up) == get_due_reminders(sq, t, limit, up)
get_due_retry_reminders(rq, t, limit, up) == get_due_reminders(rq, t, limit, up)

(* rpop, min(limit, llen) times: the oldest entries first *)
RECURSIVE ParseList(_)
ParseList(members) ==
    IF members = <<>> THEN <<>>
    ELSE <<ParseMember(Head(members))>> \o ParseList(Tail(members))

get_immediate_reminders(iq, limit, up) ==
    LET n == Min(limit, Len(iq))
        popped == Reverse(SubSeq(iq, Len(iq) - n + 1, Len(iq)))
    IN IF up
       THEN [reminders |-> ParseList(popped), q |-> SubSeq(iq, 1, Len(iq) - n),
             raised |-> FALSE]
       ELSE [reminders |-> <<>>, q |-> iq, raised |-> FALSE]

-----------------------------------------------------------------------------
(* ReminderScheduler *)

(* retry_delays[retry_count - 1] while retry_count <= len(retry_delays)    *)
(* (index -1 is the last element), else the last delay doubled per extra   *)
(* retry, at most 3600                                                     *)
(* the same with no min(..., 3600) *)
retry_delay_uncapped(config_retry_delays, retry_count) ==
    IF retry_count <= Len(config_retry_delays)
    THEN (IF retry_count = 0 THEN config_retry_delays[Len(config_retry_delays)]
          ELSE config_retry_delays[retry_count])
    ELSE config_retry_delays[Len(config_retry_delays)]
             * Pow2(retry_count - Len(config_retry_delays))

(* _calculate_retry_delay with self.config.retry_delays as an argument *)
retry_delay_with(config_retry_delays, retry_count) ==
    IF retry_count <= Len(config_retry_delays)
    THEN (IF retry_count = 0 THEN config_retry_delays[Len(config_retry_delays)]
          ELSE config_retry_delays[retry_count])
    ELSE Min(config_retry_delays[Len(config_retry_delays)]
                 * Pow2(retry_count - Len(config_retry_delays)),
             RetryDelayCap)

_calculate_retry_delay(retry_count) == retry_delay_with(retry_delays, retry_count)

(* self.reminder_service.update_reminder(reminder): the scheduler hands    *)
(* over the reminder object alone.  A collaborator with that signature     *)
(* (DatabaseManager.update_reminder) rewrites the stored record when there *)
(* is one; ReminderService.update_reminder(reminder_id, update_data)       *)
(* raises TypeError.                                                       *)
UpdateOutcomes == {"ok", "type_error"}

StoreUpdate(d, r) == IF d[r.id] = NoReminder THEN d ELSE [d EXCEPT ![r.id] = r]

(* The scheduler assigns the enum members ReminderStatus.RETRY and         *)
(* ReminderStatus.FAILED, not their values; json.dumps(default=str) writes *)
(* them as "ReminderStatus.RETRY" and "ReminderStatus.FAILED".             *)
EnumRETRY == "ReminderStatus.RETRY"
EnumFAILED == "ReminderStatus.FAILED"

_handle_failed_reminder(d, rq, t, reminder, error_message, update, up) ==
    LET r1 == [reminder EXCEPT !.retry_count = reminder.retry_count + 1,
                               !.error_message = error_message]
    IN IF r1.retry_count < r1.max_retries
       THEN LET retry_delay == _calculate_retry_delay(r1.retry_count)
                r2 == [r1 EXCEPT !.status = EnumRETRY]
            IN IF update = "type_error"
               THEN [db |-> d, retry |-> rq, r |-> r2]
               ELSE [db |-> StoreUpdate(d, r2),
                     retry |-> enqueue_retry_reminder(rq, t, r2, retry_delay, up).retry,
                     r |-> r2]
       ELSE LET r2 == [r1 EXCEPT !.status = EnumFAILED]
            IN IF update = "type_error"
               THEN [db |-> d, retry |-> rq, r |-> r2]
               ELSE [db |-> StoreUpdate(d, r2), retry |-> rq, r |-> r2]

(* ReminderStatus has no member PROCESSING: evaluating                     *)
(* ReminderStatus.PROCESSING raises AttributeError before send_reminder is *)
(* reached, and the except branch calls _handle_failed_reminder with       *)
(* str(e)                                                                  *)
_process_single_reminder(d, rq, t, reminder, update, up) ==
    _handle_failed_reminder(d, rq, t, reminder, "PROCESSING", update, up)

-----------------------------------------------------------------------------
Init ==
    /\ now = 0
    /\ db = [i \in StoreIds |-> NoReminder]
    /\ scheduledQ = {}
    /\ workerDue = <<>>
    /\ last = Ret("init", 0, "none")
    /\ immediateQ = <<>>
    /\ retryQ = {}
    /\ lockKey = NoLock
    /\ pc = [th \in Threads |-> "idle"]
    /\ batch = [th \in Threads |-> <<>>]
    /\ due = [th \in Threads |-> <<>>]
    /\ redisUp = TRUE
    /\ stuck = 0
    /\ rateKey = {}
    /\ admitted = 0

(* Inputs of the callers *)
MaxRetriesInputs == 0 .. MaxRetriesIn
RetryIntervals == {MinRetryInterval}
ScheduledTimeInputs(t) ==
    {v \in {t - MinRetryInterval, t, t + MinRetryInterval} : v >= 0}
NoPatch == [scheduled_time |-> -1, custom_message |-> "keep", max_retries |-> -1]
Patches(t) ==
    {[NoPatch EXCEPT !.scheduled_time = v] : v \in ScheduledTimeInputs(t)}
    \cup {[NoPatch EXCEPT !.max_retries = n] : n \in MaxRetriesInputs}
CurrentSids == {db[i].twilio_sid : i \in {j \in Ids : db[j] # NoReminder}} \ {NoSid}
UnknownSid == [kind |-> "SM", of |-> 0]
CallbackErrors == {[code |-> "30003", message |-> "none"]}

Tick ==
    /\ now + MinRetryInterval <= MaxTicks * MinRetryInterval
    /\ now' = now + MinRetryInterval
    /\ last' = Ret("tick", 0, "none")
    /\ UNCHANGED <<db, scheduledQ, workerDue>>
    /\ UNCHANGED schedVars

(* POST /reminders: ReminderCreate is validated, then create_reminder *)
PostReminder(d, q, t, id, in) ==
    IF ~validate_scheduled_time(in.scheduled_time, t)
    THEN [db |-> d, q |-> q, ret |-> "validation_error"]
    ELSE IF ~in.patientFound
    THEN [db |-> d, q |-> q, ret |-> "value_error"]
    ELSE LET c == create_reminder(d, q, id, in.delivery_method, in.scheduled_time,
                                  in.custom_message, in.max_retries, in.retry_interval)
         IN [db |-> c.db, q |-> c.q, ret |-> "ok"]

CreateInputs(t) ==
    [delivery_method : DeliveryMethod, scheduled_time : ScheduledTimeInputs(t),
     custom_message : {NoMessage}, max_retries : MaxRetriesInputs,
     retry_interval : RetryIntervals, patientFound : BOOLEAN]

FreeIds == {i \in Ids : db[i] = NoReminder}
NextId == IF FreeIds = {} THEN 0 ELSE CHOOSE i \in FreeIds : \A j \in FreeIds : i <= j

CreateReminder ==
    \E in \in CreateInputs(now) :
        LET c == PostReminder(db, scheduledQ, now, NextId, in)
        IN /\ c.ret = "ok" => NextId # 0
           /\ db' = c.db
           /\ scheduledQ' = c.q
           /\ last' = Ret("create", IF c.ret = "ok" THEN NextId ELSE 0, c.ret)
           /\ UNCHANGED <<rateKey, admitted, now, workerDue>>
           /\ UNCHANGED schedVars

(* ReminderService.send_immediate: create_reminder at now + 5 s with the   *)
(* defaults, then _process_reminder on the created object                  *)
send_immediate(d, q, t, id, method, msg, patientFound, sms, voice) ==
    LET c == create_reminder(d, q, id, method, t + ImmediateDelay, msg,
                             DefaultMaxRetries, DefaultRetryInterval)
    IN _process_reminder(c.db, c.q, t, c.r, patientFound, sms, voice)

(* POST /reminders/send-immediate: ReminderCreate(scheduled_time = now +    *)
(* delay_seconds) is validated, then create_reminder, and send_immediate    *)
(* when delay_seconds = 0                                                   *)
send_immediate_reminder(d, q, t, id, in) ==
    IF ~validate_scheduled_time(t + in.delay_seconds, t)
    THEN [db |-> d, q |-> q, ret |-> "validation_error"]
    ELSE LET c == create_reminder(d, q, id, in.delivery_method, t + in.delay_seconds,
                                  in.custom_message, DefaultMaxRetries,
                                  DefaultRetryInterval)
         IN IF in.delay_seconds = 0
            THEN LET p == send_immediate(c.db, c.q, t, id, in.delivery_method,
                                         in.custom_message, TRUE, in.sms, in.voice)
                 IN [db |-> p.db, q |-> p.q, ret |-> "ok"]
            ELSE [db |-> c.db, q |-> c.q, ret |-> "ok"]

ScheduleRequests ==
    [delivery_method : {"sms"}, delay_seconds : {0, MinRetryInterval},
     custom_message : {NoMessage}, sms : {"ok"}, voice : {"unused"}]

SendImmediateReminder ==
    \E in \in ScheduleRequests :
        LET c == send_immediate_reminder(db, scheduledQ, now, NextId, in)
        IN /\ c.ret = "ok" => NextId # 0
           /\ db' = c.db
           /\ scheduledQ' = c.q
           /\ last' = Ret("send_immediate", IF c.ret = "ok" THEN NextId ELSE 0, c.ret)
           /\ UNCHANGED <<rateKey, admitted, now, workerDue>>
           /\ UNCHANGED schedVars

(* PUT /reminders/{id}: ReminderUpdate is validated, then update_reminder *)
PutReminder(d, q, t, id, patch) ==
    IF patch.scheduled_time # -1 /\ ~validate_scheduled_time(patch.scheduled_time, t)
    THEN [db |-> d, q |-> q, ret |-> "validation_error"]
    ELSE update_reminder(d, q, t, id, patch)

UpdateReminder ==
    \E id \in Ids, patch \in Patches(now) :
        LET u == PutReminder(db, scheduledQ, now, id, patch)
        IN /\ db' = u.db
           /\ scheduledQ' = u.q
           /\ last' = Ret("update", id, u.ret)
           /\ UNCHANGED <<rateKey, admitted, now, workerDue>>
           /\ UNCHANGED schedVars

(* DELETE /reminders/{id} *)
CancelReminder ==
    \E id \in Ids :
        LET c == cancel_reminder(db, scheduledQ, id)
        IN /\ db' = c.db
           /\ scheduledQ' = c.q
           /\ last' = Ret("cancel", id, c.ret)
           /\ UNCHANGED <<rateKey, admitted, now, workerDue>>
           /\ UNCHANGED schedVars

(* POST /reminders/{id}/retry without new_scheduled_time *)
RetryFailedReminder ==
    \E id \in Ids, force \in BOOLEAN :
        LET c == retry_failed_reminder(db, scheduledQ, now, id, force)
        IN /\ db' = c.db
           /\ scheduledQ' = c.q
           /\ last' = Ret(IF force THEN "force_retry" ELSE "retry", id, c.ret)
           /\ UNCHANGED <<rateKey, admitted, now, workerDue>>
           /\ UNCHANGED schedVars

(* POST /webhook/twilio/status *)
UpdateDeliveryStatus ==
    \E sid \in CurrentSids \cup {UnknownSid}, status \in ProviderStatuses,
       err \in CallbackErrors :
        LET c == update_delivery_status(db, scheduledQ, now, sid, status,
                                        err.code, err.message)
        IN /\ db' = c.db
           /\ scheduledQ' = c.q
           /\ last' = Ret("callback", sid.of, c.ret)
           /\ UNCHANGED <<rateKey, admitted, now, workerDue>>
           /\ UNCHANGED schedVars

(* _process_due_reminders, up to the loop: zrangebyscore(0, now) *)
WorkerFetch ==
    /\ workerDue = <<>>
    /\ ZRangeByScore(scheduledQ, now) # <<>>
    /\ workerDue' = ZRangeByScore(scheduledQ, now)
    /\ last' = Ret("worker_fetch", 0, "none")
    /\ UNCHANGED <<rateKey, admitted, now, db, scheduledQ>>
    /\ UNCHANGED schedVars

(* one turn of the loop of _process_due_reminders *)
WorkerStep ==
    /\ workerDue # <<>>
    /\ LET m == Head(workerDue).member
           reminder == db[m.id]
       IN IF reminder # NoReminder /\ reminder.status \in {SCHEDULED, RETRY}
          THEN \E patientFound \in BOOLEAN, sms \in SmsOutcomes(reminder.delivery_method),
                  voice \in VoiceOutcomes(reminder.delivery_method) :
                 LET p == _process_reminder(db, scheduledQ, now, reminder,
                                            patientFound, sms, voice)
                 IN /\ db' = p.db
                    /\ scheduledQ' = ZRem(p.q, m)
                    /\ last' = Ret("worker", m.id, "processed")
          ELSE /\ db' = db
               /\ scheduledQ' = ZRem(scheduledQ, m)
               /\ last' = Ret("worker", m.id, "skipped")
    /\ workerDue' = Tail(workerDue)
    /\ UNCHANGED now
    /\ UNCHANGED schedVars

-----------------------------------------------------------------------------
(* The scheduler and the producers of the queue service *)

(* between a successful acquire_lock("scheduler") and release_lock *)
PopSteps == {"pop", "zrem_scheduled", "read_retry", "zrem_retry", "rpop"}
InSection(th) == pc[th] \in PopSteps \cup {"process", "wait", "done"}
RunsProcessDue(th) == pc[th] \in PopSteps \cup {"process", "wait"}
InstanceOf(th) == IF th = "api" THEN "s1" ELSE th

QueueInputs(t) ==
    {ReminderData(id, "sms", t, NoMessage, maxr, DefaultRetryInterval) :
        id \in Ids, maxr \in {1, MaxQueuedRetries}}

(* A producer stores a new reminder (DatabaseManager.create_reminder) and  *)
(* hands it to enqueue_scheduled_reminder / enqueue_immediate_reminder     *)
EnqueueReminder ==
    \E r \in QueueInputs(now), delay_seconds \in {0, check_interval} :
        /\ db[r.id] = NoReminder
        /\ LET e == enqueue_scheduled_reminder(scheduledQ, immediateQ, now, r,
                                               delay_seconds, redisUp)
           IN /\ scheduledQ' = e.scheduled
              /\ immediateQ' = e.immediate
              /\ last' = Ret("enqueue", r.id, IF e.raised THEN "raised" ELSE "ok")
        /\ db' = [db EXCEPT ![r.id] = r]
        /\ UNCHANGED <<rateKey, admitted, now, workerDue, redisUp, stuck, retryQ, lockKey, pc, batch, due>>

(* the scheduler sleeps until the next entry is due *)
FutureScores == {e.score : e \in {f \in scheduledQ \cup retryQ : f.score > now}}

WaitUntilDue ==
    /\ FutureScores # {}
    /\ LET next == CHOOSE v \in FutureScores : \A w \in FutureScores : v <= w
       IN /\ next <= MaxClock
          /\ now' = next
    /\ last' = Ret("tick", 0, "none")
    /\ UNCHANGED <<db, scheduledQ, workerDue>>
    /\ UNCHANGED schedVars

(* _scheduler_loop: acquire_lock("scheduler", timeout=check_interval);     *)
(* a refusal skips the cycle                                               *)
AcquireLock(th) ==
    /\ pc[th] = "idle"
    /\ LET a == acquire_lock(lockKey, now, th, check_interval, redisUp)
       IN /\ lockKey' = a.lock
          /\ pc' = [pc EXCEPT ![th] = IF a.ok THEN "pop" ELSE "idle"]
          /\ last' = Ret("acquire_lock", 0, IF a.ok THEN "true" ELSE "false")
    /\ UNCHANGED <<rateKey, admitted, now, db, scheduledQ, workerDue, redisUp, stuck, immediateQ, retryQ, batch, due>>

(* force_process_reminders: _process_due_reminders without the lock *)
ForceProcess ==
    /\ pc["api"] = "idle"
    /\ pc' = [pc EXCEPT !["api"] = "pop"]
    /\ last' = Ret("force_process", 0, "none")
    /\ UNCHANGED <<rateKey, admitted, now, db, scheduledQ, workerDue, redisUp, stuck, immediateQ, retryQ, lockKey, batch, due>>

(* _process_due_reminders, get_due_scheduled_reminders: zrangebyscore is   *)
(* one Redis command, the zrem of each result another one                  *)
ReadScheduled(th) ==
    /\ pc[th] = "pop"
    /\ due' = [due EXCEPT ![th] = IF redisUp
                                   THEN DueEntries(scheduledQ, now, batch_size)
                                   ELSE <<>>]
    /\ pc' = [pc EXCEPT ![th] = "zrem_scheduled"]
    /\ last' = Ret("zrangebyscore", 0, "scheduled")
    /\ UNCHANGED <<rateKey, admitted, now, db, scheduledQ, workerDue, redisUp, stuck, immediateQ, retryQ, lockKey, batch>>

RemoveScheduled(th) ==
    /\ pc[th] = "zrem_scheduled"
    /\ scheduledQ' = IF redisUp THEN ZRemAll(scheduledQ, due[th]) ELSE scheduledQ
    /\ batch' = [batch EXCEPT ![th] = ParseAll(due[th])]
    /\ due' = [due EXCEPT ![th] = <<>>]
    /\ pc' = [pc EXCEPT ![th] = "read_retry"]
    /\ last' = Ret("zrem", 0, "scheduled")
    /\ UNCHANGED <<rateKey, admitted, now, db, workerDue, redisUp, stuck, immediateQ, retryQ, lockKey>>

(* get_due_retry_reminders *)
ReadRetry(th) ==
    /\ pc[th] = "read_retry"
    /\ due' = [due EXCEPT ![th] = IF redisUp
                                   THEN DueEntries(retryQ, now, batch_size)
                                   ELSE <<>>]
    /\ pc' = [pc EXCEPT ![th] = "zrem_retry"]
    /\ last' = Ret("zrangebyscore", 0, "retry")
    /\ UNCHANGED <<rateKey, admitted, now, db, scheduledQ, workerDue, redisUp, stuck, immediateQ, retryQ, lockKey, batch>>

RemoveRetry(th) ==
    /\ pc[th] = "zrem_retry"
    /\ retryQ' = IF redisUp THEN ZRemAll(retryQ, due[th]) ELSE retryQ
    /\ batch' = [batch EXCEPT ![th] = batch[th] \o ParseAll(due[th])]
    /\ due' = [due EXCEPT ![th] = <<>>]
    /\ pc' = [pc EXCEPT ![th] = "rpop"]
    /\ last' = Ret("zrem", 0, "retry")
    /\ UNCHANGED <<rateKey, admitted, now, db, scheduledQ, workerDue, redisUp, stuck, immediateQ, lockKey>>

(* get_immediate_reminders, then the futures are submitted *)
PopImmediate(th) ==
    /\ pc[th] = "rpop"
    /\ LET i == get_immediate_reminders(immediateQ, batch_size, redisUp)
           all_reminders == batch[th] \o i.reminders
       IN /\ immediateQ' = i.q
          /\ batch' = [batch EXCEPT ![th] = all_reminders]
          /\ pc' = [pc EXCEPT ![th] = IF all_reminders = <<>> THEN "done" ELSE "process"]
          /\ last' = Ret("pop", 0, IF all_reminders = <<>> THEN "empty" ELSE "some")
    /\ UNCHANGED <<rateKey, admitted, now, db, scheduledQ, workerDue, redisUp, stuck, retryQ, lockKey, due>>

(* _process_due_reminders, the three reads of the queues by a caller that  *)
(* no other caller interleaves with                                        *)
PopDue(th) ==
    /\ pc[th] = "pop"
    /\ LET s == get_due_scheduled_reminders(scheduledQ, now, batch_size, redisUp)
           r == get_due_retry_reminders(retryQ, now, batch_size, redisUp)
           i == get_immediate_reminders(immediateQ, batch_size, redisUp)
           all_reminders == s.reminders \o r.reminders \o i.reminders
       IN /\ scheduledQ' = s.q
          /\ retryQ' = r.q
          /\ immediateQ' = i.q
          /\ batch' = [batch EXCEPT ![th] = all_reminders]
          /\ pc' = [pc EXCEPT ![th] = IF all_reminders = <<>> THEN "done" ELSE "process"]
          /\ last' = Ret("pop", 0, IF all_reminders = <<>> THEN "empty" ELSE "some")
    /\ UNCHANGED <<rateKey, admitted, now, db, workerDue, redisUp, stuck, lockKey, due>>

(* _process_due_reminders, one future of the pool, run by a free worker *)
ProcessSingle(th) ==
    /\ pc[th] = "process"
    /\ stuck < worker_threads
    /\ \E update \in UpdateOutcomes :
         LET reminder == Head(batch[th])
             h == _process_single_reminder(db, retryQ, now, reminder, update, redisUp)
         IN /\ db' = h.db
            /\ retryQ' = h.retry
            /\ last' = Ret("handle_failed", reminder.id,
                           IF update = "type_error" THEN "type_error" ELSE h.r.status)
    /\ batch' = [batch EXCEPT ![th] = Tail(batch[th])]
    /\ pc' = [pc EXCEPT ![th] = IF Tail(batch[th]) = <<>> THEN "done" ELSE "process"]
    /\ UNCHANGED <<rateKey, admitted, now, scheduledQ, workerDue, redisUp, stuck, immediateQ, lockKey, due>>

(* _scheduler_loop, finally: release_lock("scheduler") *)
ReleaseLock(th) ==
    /\ pc[th] = "done"
    /\ LET rl == release_lock(lockKey, now, redisUp)
       IN /\ lockKey' = rl.lock
          /\ last' = Ret("release_lock", 0, IF rl.ok THEN "true" ELSE "false")
    /\ pc' = [pc EXCEPT ![th] = "idle"]
    /\ UNCHANGED <<rateKey, admitted, now, db, scheduledQ, workerDue, redisUp, stuck, immediateQ, retryQ, batch, due>>

(* force_process_reminders returns *)
ForceReturn ==
    /\ pc["api"] = "done"
    /\ pc' = [pc EXCEPT !["api"] = "idle"]
    /\ last' = Ret("force_process", 0, "success")
    /\ UNCHANGED <<rateKey, admitted, now, db, scheduledQ, workerDue, redisUp, stuck, immediateQ, retryQ, lockKey, batch, due>>

SchedulerAcquire == \E th \in Loops : AcquireLock(th)
SchedulerPop == \E th \in Threads : PopDue(th)
SchedulerProcess == \E th \in Threads : ProcessSingle(th)
SchedulerRelease == \E th \in Loops : ReleaseLock(th)

NextScheduler ==
    \/ Tick
    \/ WaitUntilDue
    \/ EnqueueReminder
    \/ SchedulerAcquire
    \/ ForceProcess
    \/ SchedulerPop
    \/ SchedulerProcess
    \/ SchedulerRelease
    \/ ForceReturn

SpecScheduler == Init /\ [][NextScheduler]_vars

(* _calculate_retry_delay under any configured list of delays            *)
(* (SCHEDULER_RETRY_DELAYS) and any retry_count >= 1                       *)
DelayValues == {300, 900, 1800, 5000}
DelayLists == UNION {[1 .. n -> DelayValues] : n \in 1 .. MaxLadder}

CalculateRetryDelay ==
    /\ \E config_retry_delays \in DelayLists, retry_count \in 1 .. MaxRetryCount :
           last' = [op |-> "_calculate_retry_delay", id |-> 0,
                    retry_delays |-> config_retry_delays,
                    retry_count |-> retry_count,
                    result |-> retry_delay_with(config_retry_delays, retry_count)]
    /\ UNCHANGED <<rateKey, admitted, now, db, scheduledQ, workerDue>>
    /\ UNCHANGED schedVars

NextDelay == CalculateRetryDelay

SpecDelay == Init /\ [][NextDelay]_vars

(* The process of a scheduler instance dies inside its cycle: its threads  *)
(* stop where they are, what it had popped is lost, and nobody runs its    *)
(* finally block.  One instance stays alive.                               *)
Crash(th) ==
    /\ InSection(th)
    /\ \A other \in Loops : pc[other] # "crashed"
    /\ pc' = [pc EXCEPT ![th] = "crashed"]
    /\ batch' = [batch EXCEPT ![th] = <<>>]
    /\ due' = [due EXCEPT ![th] = <<>>]
    /\ last' = Ret("crash", 0, th)
    /\ UNCHANGED <<rateKey, admitted, now, db, scheduledQ, workerDue, redisUp, stuck, immediateQ, retryQ, lockKey>>

SchedulerCrash == \E th \in Loops : Crash(th)

NextCrash ==
    \/ Tick
    \/ EnqueueReminder
    \/ SchedulerAcquire
    \/ SchedulerPop
    \/ SchedulerProcess
    \/ SchedulerRelease
    \/ SchedulerCrash

(* The clock advances, and the loop thread of a live instance keeps        *)
(* running: while self._running, one cycle, then sleep(check_interval).    *)
FairCycles ==
    \A th \in Loops :
        /\ WF_vars(AcquireLock(th))
        /\ WF_vars(PopDue(th))
        /\ WF_vars(ProcessSingle(th))
        /\ WF_vars(ReleaseLock(th))

FairLoops == WF_vars(Tick) /\ FairCycles

SpecCrash == Init /\ [][NextCrash]_vars /\ FairLoops

(* future.result(timeout=30) inside try/except: the wait on a submission   *)
(* that does not complete ends with TimeoutError, which is logged          *)
(* the wait of a future.result() with no timeout *)
future_result_blocking(completed) == IF completed THEN "done" ELSE "blocked"

future_result(completed) == IF completed THEN "done" ELSE "timeout"

(* A producer stores a new reminder and hands it to                        *)
(* enqueue_immediate_reminder; ids are given in order                      *)
EnqueueImmediate ==
    /\ \E id \in PoolIds :
           /\ db[id] = NoReminder
           /\ \A j \in PoolIds : j < id => db[j] # NoReminder
           /\ LET r == ReminderData(id, "sms", now, NoMessage, 1, DefaultRetryInterval)
                  e == enqueue_immediate_reminder(scheduledQ, immediateQ, now, r, redisUp)
              IN /\ scheduledQ' = e.scheduled
                 /\ immediateQ' = e.immediate
                 /\ db' = [db EXCEPT ![id] = r]
                 /\ last' = Ret("enqueue", id, IF e.raised THEN "raised" ELSE "ok")
    /\ UNCHANGED <<rateKey, admitted, now, workerDue, redisUp, stuck, retryQ, lockKey, pc, batch, due>>

(* _executor.submit of a dispatch that never completes: a free worker of   *)
(* the ThreadPoolExecutor(max_workers=worker_threads) takes it and stays   *)
(* in it; with no free worker the submission is never started              *)
SubmitHangs(th) ==
    /\ pc[th] = "process"
    /\ stuck' = IF stuck < worker_threads THEN stuck + 1 ELSE stuck
    /\ pc' = [pc EXCEPT ![th] = "wait"]
    /\ last' = Ret("submit", Head(batch[th]).id,
                   IF stuck < worker_threads THEN "stuck" ELSE "never_started")
    /\ UNCHANGED <<rateKey, admitted, now, db, scheduledQ, workerDue, redisUp, immediateQ, retryQ,
                   lockKey, batch, due>>

(* the wait on that submission *)
WaitTimesOut(th) ==
    /\ pc[th] = "wait"
    /\ future_result(FALSE) = "timeout"
    /\ batch' = [batch EXCEPT ![th] = Tail(batch[th])]
    /\ pc' = [pc EXCEPT ![th] = IF Tail(batch[th]) = <<>> THEN "done" ELSE "process"]
    /\ last' = Ret("future_result", Head(batch[th]).id, "timeout")
    /\ UNCHANGED <<rateKey, admitted, now, db, scheduledQ, workerDue, redisUp, stuck, immediateQ, retryQ,
                   lockKey, due>>

SchedulerHangs == \E th \in Loops : SubmitHangs(th)
SchedulerTimeout == \E th \in Loops : WaitTimesOut(th)

NextStuck ==
    \/ EnqueueImmediate
    \/ SchedulerAcquire
    \/ SchedulerPop
    \/ SchedulerProcess
    \/ SchedulerHangs
    \/ SchedulerTimeout
    \/ SchedulerRelease

(* a submission is run by a worker or hangs, and the loop thread's wait on *)
(* it always returns                                                       *)
FairDispatch ==
    \A th \in Loops :
        /\ WF_vars(ProcessSingle(th) \/ SubmitHangs(th))
        /\ WF_vars(WaitTimesOut(th))

SpecStuck == Init /\ [][NextStuck]_vars /\ FairCycles /\ FairDispatch

(* The scheduler, with DELETE /reminders/{id} served while it runs *)
NextCancel ==
    \/ NextScheduler
    \/ CancelReminder

SpecCancel == Init /\ [][NextCancel]_vars

(* The Redis server becomes unreachable, or reachable again: from then on  *)
(* every command of redis_client raises, or succeeds                       *)
BackendChange ==
    /\ redisUp' = ~redisUp
    /\ last' = Ret("redis", 0, IF redisUp THEN "down" ELSE "up")
    /\ UNCHANGED <<rateKey, admitted, now, db, scheduledQ, workerDue, immediateQ, retryQ, lockKey, pc,
                   batch, due, stuck>>

NextOutage ==
    \/ Tick
    \/ BackendChange
    \/ EnqueueReminder
    \/ SchedulerAcquire
    \/ ForceProcess
    \/ SchedulerPop
    \/ SchedulerProcess
    \/ SchedulerRelease
    \/ ForceReturn

SpecOutage == Init /\ [][NextOutage]_vars

(* The Redis server becomes unreachable while the system runs, and stays   *)
(* so.  ReminderService was built while Redis answered, so its             *)
(* redis_client is set: its _process_due_reminders runs zrangebyscore,     *)
(* which raises, and the outer except logs the error.                      *)
BackendFails ==
    /\ redisUp
    /\ redisUp' = FALSE
    /\ last' = Ret("redis", 0, "down")
    /\ UNCHANGED <<rateKey, admitted, now, db, scheduledQ, workerDue, immediateQ, retryQ, lockKey, pc,
                   batch, due, stuck>>

WorkerPollFails ==
    /\ ~redisUp
    /\ last' = Ret("worker_fetch", 0, "error")
    /\ UNCHANGED <<rateKey, admitted, now, db, scheduledQ, workerDue>>
    /\ UNCHANGED schedVars

NextDegraded ==
    \/ Tick
    \/ BackendFails
    \/ EnqueueReminder
    \/ WorkerPollFails
    \/ SchedulerAcquire
    \/ SchedulerPop
    \/ SchedulerProcess
    \/ SchedulerRelease

SpecDegraded == Init /\ [][NextDegraded]_vars /\ FairLoops /\ WF_vars(WorkerPollFails)

(* ReminderService and the scheduler of one deployment: create_reminder    *)
(* writes "reminders:scheduled" with _schedule_reminder, and the           *)
(* scheduler's get_due_scheduled_reminders reads the same key              *)
NextShared ==
    \/ Tick
    \/ CreateReminder
    \/ SchedulerAcquire
    \/ SchedulerPop
    \/ SchedulerProcess
    \/ SchedulerRelease

SpecShared == Init /\ [][NextShared]_vars

(* PUT /reminders/{id} with a custom_message alone *)
MessagePatches == {[NoPatch EXCEPT !.custom_message = "text"]}

UpdateMessage ==
    \E id \in Ids, patch \in MessagePatches :
        LET u == PutReminder(db, scheduledQ, now, id, patch)
        IN /\ db' = u.db
           /\ scheduledQ' = u.q
           /\ last' = Ret("update_message", id, u.ret)
           /\ UNCHANGED <<rateKey, admitted, now, workerDue>>
           /\ UNCHANGED schedVars

(* The callers of ReminderService that write "reminders:scheduled" *)
NextRequeue ==
    \/ Tick
    \/ CreateReminder
    \/ UpdateReminder
    \/ UpdateMessage
    \/ RetryFailedReminder
    \/ WorkerFetch
    \/ WorkerStep

SpecRequeue == Init /\ [][NextRequeue]_vars

(* The worker loop of ReminderService once start_worker has run: while     *)
(* _worker_running, _process_due_reminders, then sleep(10).  Nobody        *)
(* cancels.                                                                *)
NextWorker ==
    \/ Tick
    \/ CreateReminder
    \/ RetryFailedReminder
    \/ WorkerFetch
    \/ WorkerStep

FairWorker == WF_vars(Tick) /\ WF_vars(WorkerFetch) /\ WF_vars(WorkerStep)

SpecWorker == Init /\ [][NextWorker]_vars /\ FairWorker

(* POST /webhook/twilio/status with every status the provider sends, in    *)
(* any letter case; last keeps what the request carried and which          *)
(* timestamps the call wrote                                               *)
WebhookStatuses == ProviderStatuses \cup {"Queued"}

twilio_status_webhook ==
    \E sid \in CurrentSids \cup {UnknownSid}, status \in WebhookStatuses,
       err \in CallbackErrors :
        LET c == update_delivery_status(db, scheduledQ, now, sid, status,
                                        err.code, err.message)
        IN /\ db' = c.db
           /\ scheduledQ' = c.q
           /\ last' = [op |-> "webhook", id |-> sid.of, result |-> c.ret,
                       sid |-> sid, status |-> status,
                       updated_at |-> c.updated_at,
                       delivered_at |-> c.delivered_at]
           /\ UNCHANGED <<rateKey, admitted, now, workerDue>>
           /\ UNCHANGED schedVars

NextCallback ==
    \/ Tick
    \/ CreateReminder
    \/ RetryFailedReminder
    \/ WorkerFetch
    \/ WorkerStep
    \/ twilio_status_webhook

SpecCallback == Init /\ [][NextCallback]_vars

(* The API gateway's RateLimitMiddleware, for one client id.  The member   *)
(* of the sorted set is str(current_time), the decimal text of the second: *)
(* two calls in the same second write the same member.                     *)
ZRemRangeByScore(q, min, max) == {e \in q : ~(min <= e.score /\ e.score <= max)}

is_allowed(key, current_time) ==
    LET window_start == current_time - RATE_LIMIT_WINDOW
        kept == ZRemRangeByScore(key, 0, window_start)
        current_requests == Cardinality(kept)
    IN IF current_requests >= RATE_LIMIT_REQUESTS
       THEN [key |-> kept, ok |-> FALSE]
       ELSE [key |-> ZAdd(kept, current_time, current_time), ok |-> TRUE]

(* dispatch: a request of the client on a path that is rate limited; the   *)
(* request goes on to call_next when is_allowed returns True               *)
GatewayRequest ==
    /\ admitted <= RATE_LIMIT_REQUESTS
    /\ LET a == is_allowed(rateKey, now)
       IN /\ rateKey' = a.key
          /\ admitted' = IF a.ok THEN admitted + 1 ELSE admitted
          /\ last' = Ret("is_allowed", 0, IF a.ok THEN "true" ELSE "false")
    /\ UNCHANGED <<now, db, scheduledQ, workerDue, immediateQ, retryQ, lockKey, pc,
                   batch, due, redisUp, stuck>>

(* a second passes at the gateway *)
GatewaySecond ==
    /\ now < MaxSecond
    /\ now' = now + 1
    /\ last' = Ret("tick", 0, "none")
    /\ UNCHANGED <<db, scheduledQ, workerDue>>
    /\ UNCHANGED schedVars

NextGateway ==
    \/ GatewayRequest
    \/ GatewaySecond

SpecGateway == Init /\ [][NextGateway]_vars

(* The callers of the queue service, Redis command by Redis command *)
QueueRead == \E th \in Threads : ReadScheduled(th) \/ ReadRetry(th)
QueueRemove == \E th \in Threads : RemoveScheduled(th) \/ RemoveRetry(th)
QueuePop == \E th \in Threads : PopImmediate(th)

NextQueue ==
    \/ Tick
    \/ EnqueueReminder
    \/ SchedulerAcquire
    \/ ForceProcess
    \/ QueueRead
    \/ QueueRemove
    \/ QueuePop
    \/ SchedulerProcess
    \/ SchedulerRelease
    \/ ForceReturn

SpecQueue == Init /\ [][NextQueue]_vars

Next ==
    \/ Tick
    \/ CreateReminder
    \/ SendImmediateReminder
    \/ UpdateReminder
    \/ CancelReminder
    \/ RetryFailedReminder
    \/ UpdateDeliveryStatus
    \/ WorkerFetch
    \/ WorkerStep

Spec == Init /\ [][Next]_vars

-----------------------------------------------------------------------------
(* Properties of the reminder service *)

Terminal == {SENT, DELIVERED, CANCELLED, FAILED}
NonTerminal == {PENDING, SCHEDULED, RETRY}
Created == {i \in Ids : db[i] # NoReminder}

(* C1: in every reachable state every created reminder has                 *)
(* 0 <= retry_count <= max_retries.                                        *)
C1_RetryCountWithinBudget ==
    \A id \in Created :
        0 <= db[id].retry_count /\ db[id].retry_count <= db[id].max_retries

(* C2: no step takes a reminder whose status is terminal (SENT, DELIVERED, *)
(* CANCELLED, FAILED) to a non-terminal status (PENDING, SCHEDULED, RETRY). *)
C2_NoRegressionFromTerminal ==
    [][\A id \in Created :
           db[id].status \in Terminal => db'[id].status \in Terminal]_vars

(* C3: cancel_reminder on an existing reminder succeeds, and the status    *)
(* becomes CANCELLED, exactly when the status is PENDING, SCHEDULED or     *)
(* RETRY; for any other status it returns an invalid-state error and the   *)
(* status stays as it was.                                                 *)
C3_CancelIffNonTerminal ==
    [][\A id \in Created :
           (last'.op = "cancel" /\ last'.id = id) =>
               IF db[id].status \in NonTerminal
               THEN last'.result = "ok" /\ db'[id].status = CANCELLED
               ELSE last'.result = "value_error" /\ db'[id].status = db[id].status]_vars

(* C6: update_delivery_status is idempotent: in every reachable state and  *)
(* for every callback, applying the callback twice leaves the store and    *)
(* the queue as applying it once does.                                     *)
C6_CallbackIdempotent ==
    \A sid \in CurrentSids \cup {UnknownSid}, status \in ProviderStatuses,
       err \in CallbackErrors :
        LET once == update_delivery_status(db, scheduledQ, now, sid, status,
                                           err.code, err.message)
            twice == update_delivery_status(once.db, once.q, now, sid, status,
                                            err.code, err.message)
        IN twice.db = once.db /\ twice.q = once.q

(* C7: in every reachable state, a create, an immediate-send request or an *)
(* update whose scheduled_time is not after now is answered with a         *)
(* validation error and leaves the store and the queue as they were.       *)
Rejected(c) == c.ret = "validation_error" /\ c.db = db /\ c.q = scheduledQ

C8_CreatedReminderIsDispatched ==
    [][\A id \in Created :
           (/\ workerDue # <<>>
            /\ Head(workerDue).member.id = id
            /\ workerDue' = Tail(workerDue)
            /\ db[id].status = PENDING
            /\ db[id].retry_count = 0
            /\ db[id].max_retries > 0)
           => \/ db'[id].status = SENT
              \/ /\ db'[id].status = RETRY
                 /\ db'[id].retry_count = 1
                 /\ db'[id].scheduled_time = now + db[id].retry_interval
                 /\ \E e \in scheduledQ' :
                        e.member.id = id /\ e.score = now + db[id].retry_interval]_vars

(* C9: when the worker dispatches a reminder with delivery_method = both,  *)
(* the SMS send succeeds and the voice call fails with a permanent error,  *)
(* the reminder ends FAILED, its retry_count is not consumed, the queue    *)
(* gets no entry for it, and error_message is the voice failure.           *)
C9_PermanentVoiceFailureIsFinal ==
    \A id \in Created :
        (/\ workerDue # <<>>
         /\ Head(workerDue).member.id = id
         /\ db[id].status \in {SCHEDULED, RETRY}
         /\ db[id].delivery_method = "both")
        => LET p == _process_reminder(db, scheduledQ, now, db[id], TRUE,
                                      "ok", "permanent")
           IN /\ p.db[id].status = FAILED
              /\ p.db[id].retry_count = db[id].retry_count
              /\ p.db[id].error_message = ErrorText("voice", "permanent")
              /\ p.q = scheduledQ

-----------------------------------------------------------------------------
(* Properties of the scheduler and of the locks *)


(* C4: two scheduler instances are never both inside the section guarded   *)
(* by the "scheduler" lock, also when a cycle lasts longer than the lock's *)
(* TTL, and _process_due_reminders never runs in two instances at once.    *)
C4_SchedulerMutualExclusion ==
    /\ \A a, b \in Loops : a # b => ~(InSection(a) /\ InSection(b))
    /\ \A a, b \in Threads :
           InstanceOf(a) # InstanceOf(b) => ~(RunsProcessDue(a) /\ RunsProcessDue(b))

(* C5: with retry_delays = [300, 900, 1800], the n-th failure in a row     *)
(* (n = 1 .. 4) of a reminder with max_retries = 4 puts it in the retry    *)
(* queue with the delay 300, 900, 1800, 3600 of its rank.                  *)
ExpectedDelays == <<300, 900, 1800, 3600>>

C5_RetryLadder ==
    [][\A th \in Threads :
           (/\ pc[th] = "process"
            /\ batch'[th] = Tail(batch[th])
            /\ Head(batch[th]).max_retries = 4
            /\ Head(batch[th]).retry_count < 4)
           => LET r == Head(batch[th])
                  n == r.retry_count + 1
              IN \E e \in retryQ' :
                     /\ e.member.id = r.id
                     /\ e.member.retry_count = n
                     /\ e.score = now + ExpectedDelays[n]]_vars

(* C10: release_lock by an instance that does not hold the lock, because   *)
(* its own lock expired and another instance acquired the lock since,      *)
(* leaves the other instance's lock in place.                              *)
C10_ReleaseOnlyByAcquirer ==
    [][\A th \in Loops :
           (/\ pc[th] = "done"
            /\ pc'[th] = "idle"
            /\ LockPresent(lockKey, now)
            /\ lockKey.client # th)
           => lockKey' = lockKey]_vars

-----------------------------------------------------------------------------
(* C11: the callers of get_due_scheduled_reminders, get_due_retry_reminders *)
(* and get_immediate_reminders that run at the same time (two scheduler    *)
(* instances, or a loop and force_process_reminders) never hold the same   *)
(* queue entry: no reminder read from a queue is in the results of two     *)
(* callers; every entry a caller reads has a score <= now, and a call      *)
(* reads at most limit entries.                                            *)
C11_EntryToOneCaller ==
    /\ \A a, b \in Threads :
           a # b => \A i \in DOMAIN batch[a], j \in DOMAIN batch[b] :
                        batch[a][i] # batch[b][j]
    /\ \A th \in Threads :
           /\ Len(due[th]) <= batch_size
           /\ \A k \in DOMAIN due[th] : due[th][k].score <= now

(* C12: the store and the queue never diverge: every stored reminder that  *)
(* is not terminal and has not been dispatched (status pending, scheduled  *)
(* or retry, no provider sid) has an entry in the queue, scored by its     *)
(* current scheduled_time.                                                 *)
C12_StoredReminderIsQueued ==
    \A id \in Created :
        (db[id].status \in NonTerminal /\ db[id].twilio_sid = NoSid)
        => \E e \in scheduledQ :
               e.member.id = id /\ e.score = db[id].scheduled_time

-----------------------------------------------------------------------------
(* The queue service while Redis is unreachable *)

RetryDelays == {retry_delays[k] : k \in DOMAIN retry_delays}

EnqueueRaises ==
    \A r \in QueueInputs(now) :
        /\ \A delay_seconds \in {0, check_interval} :
               LET e == enqueue_scheduled_reminder(scheduledQ, immediateQ, now, r,
                                                   delay_seconds, redisUp)
               IN e.raised /\ e.scheduled = scheduledQ /\ e.immediate = immediateQ
        /\ LET e == enqueue_immediate_reminder(scheduledQ, immediateQ, now, r, redisUp)
           IN e.raised /\ e.scheduled = scheduledQ /\ e.immediate = immediateQ
        /\ \A retry_delay \in RetryDelays :
               LET e == enqueue_retry_reminder(retryQ, now, r, retry_delay, redisUp)
               IN e.raised /\ e.retry = retryQ

EnqueueReturns ==
    \A r \in QueueInputs(now) :
        /\ \A delay_seconds \in {0, check_interval} :
               ~enqueue_scheduled_reminder(scheduledQ, immediateQ, now, r,
                                           delay_seconds, redisUp).raised
        /\ ~enqueue_immediate_reminder(scheduledQ, immediateQ, now, r, redisUp).raised
        /\ \A retry_delay \in RetryDelays :
               ~enqueue_retry_reminder(retryQ, now, r, retry_delay, redisUp).raised

DequeueReturnsEmpty ==
    /\ get_due_scheduled_reminders(scheduledQ, now, batch_size, redisUp)
           = [reminders |-> <<>>, q |-> scheduledQ, raised |-> FALSE]
    /\ get_due_retry_reminders(retryQ, now, batch_size, redisUp)
           = [reminders |-> <<>>, q |-> retryQ, raised |-> FALSE]
    /\ get_immediate_reminders(immediateQ, batch_size, redisUp)
           = [reminders |-> <<>>, q |-> immediateQ, raised |-> FALSE]

-----------------------------------------------------------------------------
(* a thread of the scheduler has popped the reminder and not yet handled it *)
Claimed(id) ==
    \E th \in Threads : \E k \in DOMAIN batch[th] : batch[th][k].id = id

(* C14: once a scheduler worker has claimed a reminder (popped it for      *)
(* dispatch, dispatch not finished), cancel_reminder on it is rejected     *)
(* with the invalid-state error and changes nothing; and a reminder that   *)
(* is CANCELLED stays CANCELLED: no later step writes another status over  *)
(* it.                                                                     *)
C14_NoCancelOnceClaimed ==
    [][\A id \in Created :
           /\ (Claimed(id) /\ last'.op = "cancel" /\ last'.id = id)
              => (last'.result = "value_error" /\ db'[id] = db[id])
           /\ db[id].status = CANCELLED => db'[id].status = CANCELLED]_vars

(* C15: when the dispatch of a reminder of the batch fails, the scheduler  *)
(* goes on with the rest of the batch and finishes the cycle, and the      *)
(* failure becomes a state transition of that reminder: the store has it   *)
(* RETRY and the retry queue holds an entry for it with the retry counted, *)
(* or the store has it FAILED.                                             *)
C15_FailureBecomesTransition ==
    [][\A th \in Threads :
           (pc[th] = "process" /\ batch'[th] = Tail(batch[th]))
           => LET r == Head(batch[th])
              IN /\ pc'[th] = IF batch'[th] = <<>> THEN "done" ELSE "process"
                 /\ \/ /\ db'[r.id].status \in {RETRY, EnumRETRY}
                       /\ \E e \in retryQ' :
                              /\ e.member.id = r.id
                              /\ e.member.retry_count = r.retry_count + 1
                    \/ db'[r.id].status \in {FAILED, EnumFAILED}]_vars

-----------------------------------------------------------------------------
(* C16: for every retry_count n >= 1 and every non-empty list retry_delays, *)
(* _calculate_retry_delay(n) is retry_delays[n-1] (the n-th delay) when    *)
(* n <= len(retry_delays), and min(retry_delays[-1] * 2^(n - len), 3600)   *)
(* otherwise; beyond the ladder the result never exceeds 3600.             *)
C16_RetryDelayFormula ==
    last.op = "_calculate_retry_delay"
    => LET d == last.retry_delays
           n == last.retry_count
           doubled == d[Len(d)] * 2^(n - Len(d))
       IN /\ n <= Len(d) => last.result = d[n]
          /\ n > Len(d) => /\ last.result = IF doubled < 3600 THEN doubled ELSE 3600
                           /\ last.result <= 3600

C16_Witness ==
    /\ last.op = "_calculate_retry_delay"
    /\ last.retry_delays = <<300, 900, 1800>>
    /\ last.retry_count = 5
    /\ last.result = 3600

-----------------------------------------------------------------------------
(* the edges of the status graph; a reminder under dispatch has no status  *)
(* of its own, so SCHEDULED and RETRY lead to the three dispatch results   *)
StatusEdges ==
    {<<PENDING, SCHEDULED>>,
     <<SCHEDULED, SENT>>, <<SCHEDULED, RETRY>>, <<SCHEDULED, FAILED>>,
     <<RETRY, SENT>>, <<RETRY, FAILED>>,
     <<SENT, DELIVERED>>, <<SENT, RETRY>>,
     <<PENDING, CANCELLED>>, <<SCHEDULED, CANCELLED>>, <<RETRY, CANCELLED>>}

(* C17: every status change of a reminder follows an edge of the status    *)
(* graph, so no operation moves a reminder backwards; and a reminder that  *)
(* create_reminder has stored and enqueued is SCHEDULED.                   *)
C17_StatusFollowsGraph ==
    [][\A id \in Ids :
           /\ (db[id] = NoReminder /\ db'[id] # NoReminder)
              => db'[id].status = SCHEDULED
           /\ (db[id] # NoReminder /\ db'[id].status # db[id].status)
              => <<db[id].status, db'[id].status>> \in StatusEdges]_vars

-----------------------------------------------------------------------------
(* C18: a cycle of _scheduler_loop in which acquire_lock("scheduler")      *)
(* returns false pops nothing from the queues, dispatches nothing, does    *)
(* not release or alter the lock, and does not wait for it: the instance   *)
(* is back at the start of its loop and tries again at its next cycle.     *)
C18_RefusedCycleIsSkipped ==
    [][(last'.op = "acquire_lock" /\ last'.result = "false")
       => /\ scheduledQ' = scheduledQ
          /\ retryQ' = retryQ
          /\ immediateQ' = immediateQ
          /\ batch' = batch
          /\ due' = due
          /\ db' = db
          /\ lockKey' = lockKey
          /\ pc' = pc
          /\ now' = now]_vars

C18_Witness ==
    /\ last.op = "acquire_lock"
    /\ last.result = "false"
    /\ LockPresent(lockKey, now)
    /\ \E a, b \in Loops : a # b /\ InSection(a) /\ pc[b] = "idle"
    /\ immediateQ # <<>>

-----------------------------------------------------------------------------
(* the last clock value of the model *)
Horizon == MaxTicks * MinRetryInterval

HeldByDead(th) ==
    /\ pc[th] = "crashed"
    /\ LockPresent(lockKey, now)
    /\ lockKey.client = th

LiveCycle(th) ==
    \E live \in Loops \ {th} :
        /\ pc[live] # "crashed"
        /\ LockPresent(lockKey, now)
        /\ lockKey.client = live
        /\ RunsProcessDue(live)

(* C19: when an instance dies while it holds the "scheduler" lock, the     *)
(* lock expires by its TTL and a live instance then acquires it and runs a *)
(* cycle: the lock is not held forever by the dead holder.  (Stated for    *)
(* the locks whose TTL ends within the clock of the model.)                *)
C19_DeadHolderLockIsTakenOver ==
    \A th \in Loops :
        (HeldByDead(th) /\ lockKey.identifier + check_interval <= Horizon)
        ~> LiveCycle(th)

C19_Witness ==
    \E th \in Loops :
        /\ pc[th] = "crashed"
        /\ last.op = "acquire_lock"
        /\ last.result = "true"
        /\ LiveCycle(th)
        /\ lockKey.identifier > 0

-----------------------------------------------------------------------------
(* the loop thread goes on from a submission: a worker handled it, or it   *)
(* was handed to the pool and hangs                                        *)
Submitted(th) ==
    /\ pc[th] = "process"
    /\ \/ batch'[th] = Tail(batch[th])
       \/ pc'[th] = "wait"

NeverStarted == last'.op = "submit" /\ last'.result = "never_started"

CycleEnds ==
    \A th \in Loops : (pc[th] \in {"process", "wait"}) ~> (pc[th] = "idle")

-----------------------------------------------------------------------------
(* a "failed" callback for the reminder that holds the sid *)
FailedCallback(id) ==
    update_delivery_status(db, scheduledQ, now, db[id].twilio_sid, "failed",
                           "30003", "none")

(* the same reminder failing in a dispatch of the scheduler *)
FailedDispatch(id) ==
    _handle_failed_reminder(db, retryQ, now, db[id], "Erreur Twilio: 30003",
                            "ok", TRUE)

(* C21: a delivery callback mapped to failed, for a reminder with retry    *)
(* budget left, has the effect of a dispatch failure handled by the        *)
(* scheduler: the same retry_count, status RETRY, the delay of the backoff *)
(* ladder, and an entry in the retry queue where the scheduler puts it.    *)
C21_CallbackRetriesAsScheduler ==
    \A id \in Created :
        (/\ db[id].twilio_sid # NoSid
         /\ db[id].status \in {SENT, DELIVERED}
         /\ db[id].retry_count < db[id].max_retries)
        => LET c == FailedCallback(id)
               h == FailedDispatch(id)
               delay == _calculate_retry_delay(h.r.retry_count)
           IN /\ c.db[id].retry_count = h.r.retry_count
              /\ c.db[id].status = RETRY
              /\ c.db[id].scheduled_time = now + delay
              /\ \E e \in h.retry : e.member.id = id /\ e.score = now + delay
              /\ \E e \in retryQ : e.member.id = id /\ e.score = now + delay

-----------------------------------------------------------------------------
(* C22: a later delivery callback only keeps or improves a reminder's      *)
(* status: a callback leaves a DELIVERED reminder DELIVERED (it is never   *)
(* changed to SENT or FAILED), and leaves a CANCELLED reminder as it is.   *)
C22_CallbackKeepsOrImproves ==
    [][last'.op = "callback"
       => \A id \in Created :
              /\ db[id].status = DELIVERED => db'[id].status = DELIVERED
              /\ db[id].status = CANCELLED => db'[id] = db[id]]_vars

-----------------------------------------------------------------------------
(* a stored reminder that is due and that nothing has dispatched or popped *)
DueInStore(id) ==
    /\ db[id] # NoReminder
    /\ db[id].status = PENDING
    /\ db[id].scheduled_time <= now
    /\ ~Claimed(id)

(* a dispatch of the reminder has been run *)
Dispatched(id) ==
    \/ db[id] # NoReminder /\ db[id].status # PENDING
    \/ last.op = "handle_failed" /\ last.id = id

(* C23: when the queue backend becomes unavailable while the system runs,  *)
(* the scheduler polls the reminder store instead: a due reminder of the   *)
(* store is eventually dispatched with the backend down.                   *)
C23_StorePolledWhenBackendDown ==
    \A id \in Ids : (~redisUp /\ DueInStore(id)) ~> Dispatched(id)

-----------------------------------------------------------------------------
(* a queue holds an entry for the reminder *)
Queued(id) ==
    \/ \E e \in scheduledQ \cup retryQ : e.member.id = id
    \/ \E k \in DOMAIN immediateQ : immediateQ[k].id = id

(* C24: delivery is at-least-once: a reminder that was enqueued and that a *)
(* scheduler has popped from its queue is eventually dispatched, or is     *)
(* back in a queue for a later cycle, also when the instance that popped   *)
(* it crashes before the outcome of the dispatch is recorded.  (Stated for  *)
(* the pops after which the clock of the model still outlasts the lock.)   *)
C24_PoppedIsDispatchedOrRequeued ==
    \A id \in Ids :
        (Claimed(id) /\ now + check_interval <= Horizon)
        ~> (Dispatched(id) \/ Queued(id))

-----------------------------------------------------------------------------
(* C25: after cancel_reminder has succeeded, no entry for the reminder's   *)
(* id remains in the scheduled, retry or immediate queue for a scheduler   *)
(* cycle or worker to pop and send, whichever queue held it.               *)
C25_CancelledIsInNoQueue ==
    \A id \in Created : db[id].status = CANCELLED => ~Queued(id)

-----------------------------------------------------------------------------
(* C26: the retry budget the scheduler applies to a popped queue entry is  *)
(* the store record's: the ReminderData rebuilt from an entry written by   *)
(* _schedule_reminder has the max_retries and retry_count the reminder was *)
(* created or last updated with.                                           *)
C26_PoppedBudgetIsStoredBudget ==
    \A th \in Threads : \A k \in DOMAIN batch[th] :
        LET r == batch[th][k]
        IN db[r.id] # NoReminder
           => /\ r.max_retries = db[r.id].max_retries
              /\ r.retry_count = db[r.id].retry_count

-----------------------------------------------------------------------------
EntriesOf(id) ==
    Cardinality({e \in scheduledQ : e.member.id = id})
        + Cardinality({e \in retryQ : e.member.id = id})

(* C27: at any time the scheduled and the retry queue hold together at     *)
(* most one entry per reminder id, after any sequence of create_reminder,  *)
(* update_reminder (with or without a new scheduled_time or                *)
(* custom_message), retry_failed_reminder and _schedule_retry.             *)
C27_OneEntryPerReminder ==
    \A id \in Ids : EntriesOf(id) <= 1

-----------------------------------------------------------------------------
(* the stored reminder still waits for its first send *)
AwaitingFirstSend(id) ==
    /\ db[id] # NoReminder
    /\ db[id].status = PENDING
    /\ db[id].retry_count = 0
    /\ db[id].twilio_sid = NoSid

(* C28: every reminder created by create_reminder and never cancelled is,  *)
(* once due, eventually dispatched by the worker loop of ReminderService:  *)
(* _process_due_reminders never removes a due queue entry without          *)
(* dispatching the reminder while the stored reminder still waits for its  *)
(* first send.  (The eventuality is stated for the reminders due within    *)
(* the clock of the model.)                                                *)
C28_WorkerDispatchesCreated ==
    /\ [][\A id \in Ids :
              (/\ workerDue # <<>>
               /\ workerDue' = Tail(workerDue)
               /\ Head(workerDue).member.id = id
               /\ AwaitingFirstSend(id))
              => (last'.op = "worker" /\ last'.result = "processed")]_vars
    /\ \A id \in Ids :
           (AwaitingFirstSend(id) /\ db[id].scheduled_time <= Horizon)
           ~> (db[id] # NoReminder /\ db[id].status # PENDING)

-----------------------------------------------------------------------------
MappedStatuses == {"delivered", "sent", "failed", "undelivered"}

(* C29: update_delivery_status with an external id that matches no         *)
(* reminder returns false and changes no reminder and no queue; with a     *)
(* provider status outside delivered, sent, failed, undelivered (in any    *)
(* letter case) it returns true and leaves the matched reminder's status,  *)
(* retry_count and timestamps and the queues as they were.                 *)
C29_UnknownCallbackChangesNothing ==
    [][last'.op = "webhook"
       => LET matched == _get_reminder_by_twilio_sid(db, last'.sid) # NoReminder
              unchanged ==
                  /\ db' = db
                  /\ scheduledQ' = scheduledQ
                  /\ retryQ' = retryQ
                  /\ immediateQ' = immediateQ
                  /\ last'.updated_at = Unwritten
                  /\ last'.delivered_at = Unwritten
          IN /\ ~matched => (last'.result = "false" /\ unchanged)
             /\ (matched /\ Lower(last'.status) \notin MappedStatuses)
                => (last'.result = "true" /\ unchanged)]_vars

C29_Witness ==
    /\ last.op = "webhook"
    /\ last.status = "Queued"
    /\ last.result = "true"
    /\ db[1] # NoReminder
    /\ db[1].status = RETRY
    /\ db[1].twilio_sid = last.sid
    /\ \E e \in scheduledQ : e.member.id = 1

-----------------------------------------------------------------------------
(* C30: while Redis is reachable, the rate limiter admits at most          *)
(* RATE_LIMIT_REQUESTS requests of one client id within any window of      *)
(* RATE_LIMIT_WINDOW seconds, also when several requests arrive within the *)
(* same second.  (Every request of the model falls in one window:          *)
(* MaxSecond < RATE_LIMIT_WINDOW.)                                         *)
C30_AtMostLimitPerWindow ==
    MaxSecond < RATE_LIMIT_WINDOW => admitted <= RATE_LIMIT_REQUESTS
====
